---- MODULE Spec2Model ----
(***************************************************************************)
(* Snapshot ensemble training (torchensemble/snapshot_ensemble.py).        *)
(*                                                                         *)
(* One ensemble object (a SnapshotEnsembleClassifier or a                  *)
(* SnapshotEnsembleRegressor) and one call of its fit method.  The state   *)
(* is the object's fields, the arguments and locals of fit, the objects    *)
(* fit allocates (the live estimator and its deep copies), the save        *)
(* target, and the position of fit in its loops.                           *)
(*                                                                         *)
(* Rates (init_lr, lr_clip, weight_decay, the learning rate of a parameter *)
(* group, the scheduler's multiplier) are fixed-point numbers with Scale   *)
(* units to 1.0.                                                           *)
(***************************************************************************)
EXTENDS Integers, Sequences, FiniteSets, TLC

\* ------------------------------------------------------------------ bounds
MaxEpochs == 4
MaxBatches == 2
MaxEstimators == 3
MaxTestBatches == 1
MaxObs == 2

\* Fixed-point resolution of a float, and math.pi in that resolution.
Scale == 1000
Pi == 3142

\* ------------------------------------------------------- Python arithmetic
Abs(a) == IF a < 0 THEN -a ELSE a

\* a // b for b # 0: the floor of the quotient, whatever the signs.
PyFloorDiv(a, b) == IF b > 0 THEN a \div b ELSE (-a) \div (-b)

\* a % b for b # 0: the remainder has the sign of b.
PyMod(a, b) == a - b * PyFloorDiv(a, b)

\* math.ceil(a / b) for b # 0.
PyCeilDiv(a, b) == -PyFloorDiv(-a, b)

\* cos(x) for 0 <= x <= pi/2, x and the result in Scale units (Taylor
\* series to the x^8 term, each term from the one before).
CosQ(x) ==
    LET x2 == (x * x) \div Scale
        t1 == x2 \div 2
        t2 == (t1 * x2) \div (12 * Scale)
        t3 == (t2 * x2) \div (30 * Scale)
        t4 == (t3 * x2) \div (56 * Scale)
    IN  Scale - t1 + t2 - t3 + t4

\* cos(pi * num / den) for 0 <= num < den, by cos(pi - y) = -cos(y).
CosPi(num, den) ==
    IF 2 * num <= den
    THEN CosQ((Pi * num) \div den)
    ELSE -CosQ((Pi * (den - num)) \div den)

\* ---------------------------------------------------------------- values
\* lr_clip as passed: None, a list/tuple of numbers, or a bare number.
None == [type |-> "NoneType", val |-> <<>>]
List(s) == [type |-> "list", val |-> s]
Float(x) == [type |-> "float", val |-> <<x>>]

\* Python truth value of an lr_clip argument.
Truthy(v) ==
    CASE v.type = "NoneType" -> FALSE
      [] v.type = "list" -> Len(v.val) > 0
      [] OTHER -> v.val[1] # 0

\* A data loader is its number of batches; NoLoader is None.
NoLoader == -1

\* A test that only asks whether a loader was passed.
LoaderIsNotNone(l) == l # NoLoader

\* Python truth value of a loader argument: None and a loader of length 0
\* are false.
LoaderTruthy(l) == l # NoLoader /\ l # 0

\* ------------------------------------------------------------------ state
VARIABLES
    n_estimators,       \* self.n_estimators
    is_classification,  \* self.is_classification
    estimators_,        \* self.estimators_: the ids of the snapshots, in order
    n_outputs,          \* self.n_outputs, 0 while the attribute is not set
    heap,               \* heap[id]: parameter state of estimator object id
    args,               \* the arguments of the running fit call
    estimator_,         \* id of the live estimator, 0 before it is made
    param_groups,       \* optimizer.param_groups, <<>> before the optimizer is made
    scheduler,          \* the LambdaLR object
    best,               \* best_acc / best_mse
    counter,            \* counter
    n_iters_per_estimator,
    epoch,              \* epoch of the outer loop, 0-based
    batch_idx,          \* batch_idx of the inner loop
    pc,                 \* where fit is
    error,              \* the exception fit raised, "" if none
    last_step,          \* learning rates at the latest optimizer.step()
    snapshot_log,       \* one entry per snapshot appended by this call
    validation_log,     \* one entry per validation pass of this call
    save_log,           \* one entry per utils.save of this call
    lr_lambda_log       \* one entry per call of lr_lambda by LambdaLR, in order

vars == <<n_estimators, is_classification, estimators_, n_outputs, heap, args,
          estimator_, param_groups, scheduler, best, counter,
          n_iters_per_estimator, epoch, batch_idx, pc, error, last_step,
          snapshot_log, validation_log, save_log, lr_lambda_log>>

self_vars == <<n_estimators, is_classification>>
log_vars == <<last_step, snapshot_log, validation_log, save_log>>
loop_vars == <<best, counter, n_iters_per_estimator, epoch, batch_idx>>

\* ------------------------------------------------------------------ inputs
NEstimators == (-2) .. MaxEstimators
InitLrs == {0, 100}
LrClips == {None, List(<<>>), List(<<10, 50>>), List(<<50, 10>>),
            List(<<10, 50, 90>>), Float(5)}
WeightDecays == {-1, 0}
Epochs == 0 .. MaxEpochs
LogIntervals == {0, 1}
TrainLoaders == 0 .. MaxBatches
TestLoaders == {NoLoader} \cup (0 .. MaxTestBatches)

FitArgs ==
    [train_loader : TrainLoaders, init_lr : InitLrs, lr_clip : LrClips,
     weight_decay : WeightDecays, epochs : Epochs,
     log_interval : LogIntervals, test_loader : TestLoaders,
     save_model : BOOLEAN]

\* The locals of a fit call that has not started.
NotCalled ==
    [train_loader |-> 0, init_lr |-> 0, lr_clip |-> None, weight_decay |-> 0,
     epochs |-> 0, log_interval |-> 0, test_loader |-> NoLoader,
     save_model |-> FALSE]

NoScheduler == [T_M |-> 0, last_epoch |-> -1]
NoStep == [raw |-> <<>>, used |-> <<>>]

\* float("inf"): above every score a validation pass can produce.
Inf == MaxObs * Scale + 1

\* ------------------------------------------------------------ constructor
Init ==
    /\ n_estimators \in NEstimators
    /\ is_classification \in BOOLEAN
    /\ estimators_ = <<>>
    /\ n_outputs = 0
    /\ heap = <<>>
    /\ args = NotCalled
    /\ estimator_ = 0
    /\ param_groups = <<>>
    /\ scheduler = NoScheduler
    /\ best = 0
    /\ counter = 0
    /\ n_iters_per_estimator = 0
    /\ epoch = 0
    /\ batch_idx = 0
    /\ pc = "idle"
    /\ error = ""
    /\ last_step = NoStep
    /\ snapshot_log = <<>>
    /\ validation_log = <<>>
    /\ save_log = <<>>
    /\ lr_lambda_log = <<>>

\* --------------------------------------------------- _validate_parameters
\* _validate_parameters without its last test, epochs % n_estimators.
ValidateParametersNoMultiple(n, a) ==
    CASE ~(a.init_lr > 0) -> "ValueError"
      [] Truthy(a.lr_clip) /\ a.lr_clip.type # "list" -> "ValueError"
      [] Truthy(a.lr_clip) /\ Len(a.lr_clip.val) # 2 -> "ValueError"
      [] Truthy(a.lr_clip) /\ ~(a.lr_clip.val[1] < a.lr_clip.val[2]) -> "ValueError"
      [] ~(a.weight_decay >= 0) -> "ValueError"
      [] ~(a.epochs > 0) -> "ValueError"
      [] ~(a.log_interval > 0) -> "ValueError"
      [] n = 0 -> "ZeroDivisionError"
      [] OTHER -> ""

\* The exception _validate_parameters raises, "" if it returns.
ValidateParameters(n, a) ==
    CASE ~(a.init_lr > 0) -> "ValueError"
      [] Truthy(a.lr_clip) /\ a.lr_clip.type # "list" -> "ValueError"
      [] Truthy(a.lr_clip) /\ Len(a.lr_clip.val) # 2 -> "ValueError"
      [] Truthy(a.lr_clip) /\ ~(a.lr_clip.val[1] < a.lr_clip.val[2]) -> "ValueError"
      [] ~(a.weight_decay >= 0) -> "ValueError"
      [] ~(a.epochs > 0) -> "ValueError"
      [] ~(a.log_interval > 0) -> "ValueError"
      [] n = 0 -> "ZeroDivisionError"
      [] ~(PyMod(a.epochs, n) = 0) -> "ValueError"
      [] OTHER -> ""

\* ------------------------------------------------------------- _clip_lr
\* Mutant of ClipGroup: the upper bound is not applied.
ClipGroupLowerOnly(g, lr_clip) ==
    IF g.lr < lr_clip.val[1] THEN [g EXCEPT !.lr = lr_clip.val[1]] ELSE g

\* One parameter group after the two tests of _clip_lr.
ClipGroup(g, lr_clip) ==
    LET lo == lr_clip.val[1]
        hi == lr_clip.val[2]
        g1 == IF g.lr < lo THEN [g EXCEPT !.lr = lo] ELSE g
    IN  IF g1.lr > hi THEN [g1 EXCEPT !.lr = hi] ELSE g1

ClipLr(groups, lr_clip) ==
    IF ~Truthy(lr_clip)
    THEN groups
    ELSE [i \in 1 .. Len(groups) |-> ClipGroup(groups[i], lr_clip)]

\* --------------------------------------------------------- _set_scheduler
\* A period one longer than the floor of the quotient.
SchedulerPeriodPlusOne(n_iters, n) == PyFloorDiv(n_iters, n) + 1

\* T_M = math.ceil(n_iters / self.n_estimators)
SchedulerPeriod(n_iters, n) == PyCeilDiv(n_iters, n)

\* A phase that is never wrapped at the end of a cycle.
PhaseUnwrapped(iteration, T_M) == iteration

\* iteration % T_M, the position inside the current cycle.
Phase(iteration, T_M) == PyMod(iteration, T_M)

\* lr_lambda: 0.5 * (cos(pi * (iteration % T_M) / T_M) + 1), in Scale units.
LrLambda(iteration, T_M) ==
    (CosPi(Abs(Phase(iteration, T_M)), Abs(T_M)) + Scale) \div 2

\* One call of lr_lambda by LambdaLR: the phase and the multiplier returned.
LrLambdaCall(iteration, T_M) ==
    [phase |-> Phase(iteration, T_M), mult |-> LrLambda(iteration, T_M)]

\* LambdaLR.step(): every group's lr becomes initial_lr * lr_lambda(last_epoch).
SchedulerStep(groups, sch) ==
    [i \in 1 .. Len(groups) |->
        [groups[i] EXCEPT
            !.lr = (groups[i].initial_lr * LrLambda(sch.last_epoch, sch.T_M))
                   \div Scale]]

\* utils.set_optimizer: one parameter group at the initial rate.
SetOptimizer(init_lr) == <<[lr |-> init_lr, initial_lr |-> init_lr]>>

\* self._decide_n_outputs(train_loader, is_classification)
DecideNOutputs(train_loader, classification) ==
    IF classification THEN 2 ELSE 1

\* Mutant of ItersPerEstimator: the division by n_estimators is forgotten.
ItersPerEstimatorUndivided(n_iters, n) == n_iters

\* n_iters_per_estimator = epochs * len(train_loader) // self.n_estimators
ItersPerEstimator(n_iters, n) == PyFloorDiv(n_iters, n)

\* A counter that advances by two for one optimizer step.
CounterAfterStepTwice(c) == c + 2

\* counter += 1
CounterAfterStep(c) == c + 1

\* A snapshot that is the live estimator itself instead of a copy of it.
SnapshotAlias(h, live) == live

\* copy.deepcopy(estimator_): the id of the snapshot, a new object.
SnapshotId(h, live) == Len(h) + 1

\* A collector that puts the new snapshot in front of the others.
CollectInFront(ids, id) == <<id>> \o ids

\* self.estimators_.append(snapshot)
Collect(ids, id) == Append(ids, id)

\* An ensemble that leaves out the snapshot appended last.
ForwardAllButLast(ids) == SubSeq(ids, 1, Len(ids) - 1)

\* _forward: the estimators whose outputs the ensemble averages.
ForwardEnsemble(ids) == ids

\* ------------------------------------------------------------ validation
\* Mutant of IsBoundary: a threshold instead of a multiple.
IsBoundaryReached(c, ipe) == c >= ipe

\* The cycle-boundary test of the epoch end: counter % n_iters_per_estimator == 0.
IsBoundary(c, ipe) == PyMod(c, ipe) = 0

\* acc = 100. * float(correct) / len(test_loader.dataset): every test batch
\* holds MaxObs samples.  mse = (sum of the batch losses) / len(test_loader).
Score(classification, obs, test_loader) ==
    IF classification
    THEN (100 * Scale * obs) \div (test_loader * MaxObs)
    ELSE (Scale * obs) \div test_loader

\* What the score is divided by: len(test_loader.dataset) for the
\* classifier, len(test_loader) for the regressor.
ScoreDivisor(classification, test_loader) ==
    IF classification THEN test_loader * MaxObs ELSE test_loader

\* Mutant of Improves: the score is taken without comparing it.
ImprovesAlways(classification, score, b) == TRUE

\* acc > best_acc for the classifier, mse < best_mse for the regressor.
Improves(classification, score, b) ==
    IF classification THEN score > b ELSE score < b

\* Mutant of GateSaves: every validation pass saves when save_model is set.
GateSavesEveryPass(classification, score, b, save_model) == save_model

\* Whether the validation pass saves the ensemble after scoring it.
GateSaves(classification, score, b, save_model) ==
    Improves(classification, score, b) /\ save_model

\* Mutant of FinalSaves: the test of the validation loader is inverted.
FinalSavesInverted(save_model, test_loader) ==
    save_model /\ LoaderTruthy(test_loader)

\* Whether fit saves the ensemble after the training loop.
FinalSaves(save_model, test_loader) ==
    save_model /\ ~LoaderTruthy(test_loader)

\* The parameter states of the snapshots in the collector.
Ensemble(ids, h) == [i \in 1 .. Len(ids) |-> h[ids[i]]]

\* utils.save(self, save_dir, verbose): the ensemble as it is now is written.
Save(log, e, ids, h) ==
    Append(log, [epoch |-> e, ensemble |-> Ensemble(ids, h)])

\* A fit that starts from an empty collector.
CollectorCleared(ids) == <<>>

\* The collector as fit finds it: fit has no statement that empties or
\* replaces self.estimators_, which only __init__ creates.
CollectorAtFit(ids) == ids

\* ---------------------------------------------------------------- fit
\* fit up to the training loop: n_outputs, parameter validation, the
\* estimator, the optimizer, the scheduler and the loop's locals.
FitBody(a) ==
    /\ args' = a
    /\ n_outputs' = DecideNOutputs(a.train_loader, is_classification)
    /\ LET err == ValidateParameters(n_estimators, a)
           n_iters == a.epochs * a.train_loader
       IN  IF err # ""
           THEN /\ pc' = "raised"
                /\ error' = err
                /\ lr_lambda_log' = <<>>
                /\ UNCHANGED <<heap, estimator_, param_groups, scheduler,
                               loop_vars>>
           ELSE LET T_M == SchedulerPeriod(n_iters, n_estimators)
                    opt == SetOptimizer(a.init_lr)
                    sch == [T_M |-> T_M, last_epoch |-> 0]
                IN  /\ heap' = Append(heap, 0)
                    /\ estimator_' = Len(heap) + 1
                    /\ IF T_M = 0
                       THEN \* LambdaLR evaluates lr_lambda(0): 0 % T_M
                            /\ pc' = "raised"
                            /\ error' = "ZeroDivisionError"
                            /\ param_groups' = opt
                            /\ lr_lambda_log' = <<>>
                            /\ UNCHANGED <<scheduler, loop_vars>>
                       ELSE /\ param_groups' = SchedulerStep(opt, sch)
                            /\ scheduler' = sch
                            /\ lr_lambda_log' = <<LrLambdaCall(0, T_M)>>
                            /\ best' = IF is_classification THEN 0 ELSE Inf
                            /\ counter' = 0
                            /\ n_iters_per_estimator' =
                                   ItersPerEstimator(n_iters, n_estimators)
                            /\ epoch' = 0
                            /\ batch_idx' = 0
                            /\ pc' = "batch"
                            /\ error' = ""
    /\ estimators_' = CollectorAtFit(estimators_)
    /\ UNCHANGED self_vars

\* fit called on the ensemble as the constructor left it.
Fit(a) ==
    /\ pc = "idle"
    /\ FitBody(a)
    /\ UNCHANGED log_vars

\* fit called again on an ensemble whose first fit has returned: the same
\* code, and the logs start over for the new call.
Refit(a) ==
    /\ pc = "done"
    /\ Len(estimators_) = Len(snapshot_log)
    /\ FitBody(a)
    /\ last_step' = NoStep
    /\ snapshot_log' = <<>>
    /\ validation_log' = <<>>
    /\ save_log' = <<>>

\* One pass of the inner loop: clip, optimizer.step(), scheduler.step(),
\* counter += 1.
TrainBatch ==
    /\ pc = "batch"
    /\ LET clipped == ClipLr(param_groups, args.lr_clip)
           sch == [scheduler EXCEPT !.last_epoch = @ + 1]
       IN  /\ last_step' =
                  [raw |-> [i \in 1 .. Len(param_groups) |-> param_groups[i].lr],
                   used |-> [i \in 1 .. Len(clipped) |-> clipped[i].lr]]
           /\ heap' = [heap EXCEPT ![estimator_] = @ + 1]
           /\ scheduler' = sch
           /\ param_groups' = SchedulerStep(clipped, sch)
           /\ lr_lambda_log' =
                  Append(lr_lambda_log,
                         LrLambdaCall(sch.last_epoch, sch.T_M))
    /\ counter' = CounterAfterStep(counter)
    /\ IF batch_idx + 1 < args.train_loader
       THEN batch_idx' = batch_idx + 1 /\ pc' = "batch"
       ELSE batch_idx' = batch_idx /\ pc' = "epoch_end"
    /\ UNCHANGED <<self_vars, estimators_, n_outputs, args, estimator_, best,
                   n_iters_per_estimator, epoch, error, snapshot_log,
                   validation_log, save_log>>

\* The end of an epoch: the snapshot and the validation pass, when due.
\* obs is what the validation pass observes: the number of correct
\* predictions (classifier) or the sum of the batch losses (regressor).
EpochEnd(obs) ==
    /\ pc = "epoch_end"
    /\ IF n_iters_per_estimator = 0
       THEN \* counter % 0
            /\ obs = 0
            /\ pc' = "raised"
            /\ error' = "ZeroDivisionError"
            /\ UNCHANGED <<estimators_, heap, best, epoch, batch_idx,
                           snapshot_log, validation_log, save_log>>
       ELSE LET boundary == IsBoundary(counter, n_iters_per_estimator)
                validates == LoaderTruthy(args.test_loader) /\ boundary
                heap1 == IF boundary
                         THEN Append(heap, heap[estimator_])
                         ELSE heap
                ids1 == IF boundary
                        THEN Collect(estimators_, SnapshotId(heap, estimator_))
                        ELSE estimators_
                score == Score(is_classification, obs, args.test_loader)
                saves == GateSaves(is_classification, score, best,
                                   args.save_model)
            IN  /\ validates \/ obs = 0
                /\ heap' = heap1
                /\ estimators_' = ids1
                /\ snapshot_log' =
                       IF boundary
                       THEN Append(snapshot_log,
                                   [epoch |-> epoch, counter |-> counter,
                                    index |-> Len(ids1) - 1,
                                    state |-> heap[estimator_]])
                       ELSE snapshot_log
                /\ IF validates /\ ScoreDivisor(is_classification,
                                                args.test_loader) = 0
                   THEN \* acc or mse divides by a zero size
                        /\ pc' = "raised"
                        /\ error' = "ZeroDivisionError"
                        /\ UNCHANGED <<best, save_log, validation_log, epoch,
                                       batch_idx>>
                   ELSE /\ IF validates
                           THEN /\ best' =
                                       IF Improves(is_classification, score,
                                                   best)
                                       THEN score ELSE best
                                /\ save_log' =
                                       IF saves
                                       THEN Save(save_log, epoch, ids1, heap1)
                                       ELSE save_log
                                /\ validation_log' =
                                       Append(validation_log,
                                              [epoch |-> epoch,
                                               n_estimators |-> Len(ids1),
                                               scored |->
                                                 Len(ForwardEnsemble(ids1)),
                                               score |-> score,
                                               before |-> best])
                           ELSE UNCHANGED <<best, save_log, validation_log>>
                        /\ epoch' = epoch + 1
                        /\ batch_idx' = 0
                        /\ pc' = IF epoch + 1 < args.epochs
                                 THEN "batch" ELSE "loop_end"
                        /\ error' = error
    /\ UNCHANGED <<self_vars, n_outputs, args, estimator_, param_groups,
                   scheduler, counter, n_iters_per_estimator, last_step,
                   lr_lambda_log>>

\* After the training loop: the save of a run without validation.
Finish ==
    /\ pc = "loop_end"
    /\ save_log' = IF FinalSaves(args.save_model, args.test_loader)
                   THEN Save(save_log, epoch, estimators_, heap)
                   ELSE save_log
    /\ pc' = "done"
    /\ UNCHANGED <<self_vars, estimators_, n_outputs, heap, args, estimator_,
                   param_groups, scheduler, loop_vars, error, last_step,
                   snapshot_log, validation_log, lr_lambda_log>>

Next ==
    \/ pc = "idle" /\ \E a \in FitArgs : Fit(a)
    \/ TrainBatch
    \/ pc = "epoch_end" /\ \E obs \in 0 .. MaxObs : EpochEnd(obs)
    \/ Finish

Spec == Init /\ [][Next]_vars

\* ------------------------------------------------- two fits, one ensemble
\* Arguments that pass every test of _validate_parameters but the last.
RefitArgs ==
    {a \in FitArgs : /\ a.init_lr > 0
                     /\ a.lr_clip = None
                     /\ a.weight_decay >= 0
                     /\ a.log_interval > 0
                     /\ a.epochs > 0
                     /\ a.train_loader > 0}

\* fit on a fresh ensemble and, once it has returned, fit on it again; a
\* validation pass observes the worst or the best score.
NextRefit ==
    \/ pc = "idle" /\ \E a \in RefitArgs : Fit(a)
    \/ TrainBatch
    \/ pc = "epoch_end" /\ \E obs \in {0, MaxObs} : EpochEnd(obs)
    \/ Finish
    \/ pc = "done" /\ \E a \in RefitArgs : Refit(a)

SpecRefit == Init /\ [][NextRefit]_vars

\* ============================================================ properties
\* The budget of the data model: positive epochs, batches per epoch and
\* cycles.
PositiveBudget ==
    args.epochs > 0 /\ args.train_loader > 0 /\ n_estimators > 0

\* lr_clip is absent or a well-formed bound (lo, hi) with lo < hi.
ClipWellFormed(c) ==
    \/ c = None
    \/ /\ c.type = "list"
       /\ Len(c.val) = 2
       /\ c.val[1] < c.val[2]

\* Every argument other than the budget is one fit accepts.
OtherArgsValid ==
    /\ args.init_lr > 0
    /\ args.weight_decay >= 0
    /\ args.log_interval > 0
    /\ ClipWellFormed(args.lr_clip)

Called == pc # "idle"

\* The ensemble has a positive number of cycles and the training loader
\* holds at least one batch.
PositiveSetup == n_estimators > 0 /\ args.train_loader > 0

\* ---- C1
\* C1 as stated: for every budget of positive integers with
\* epochs * batches_per_epoch divisible by n_cycles, fit does not raise and
\* a completed run leaves exactly n_cycles snapshots in the collector.
C1_ProductDivisible ==
    (/\ Called
     /\ PositiveBudget
     /\ OtherArgsValid
     /\ (args.epochs * args.train_loader) % n_estimators = 0)
    => /\ pc # "raised"
       /\ pc = "done" => Len(estimators_) = n_estimators

\* C1 amended: for every budget of positive integers with epochs divisible
\* by n_cycles, fit on a fresh ensemble does not raise, can always take its
\* next step until it is done, and then the collector holds exactly
\* n_cycles snapshots.
C1_EpochsDivisible ==
    (/\ Called
     /\ PositiveBudget
     /\ OtherArgsValid
     /\ args.epochs % n_estimators = 0)
    => /\ pc # "raised"
       /\ pc # "done" => ENABLED Next
       /\ pc = "done" => /\ Len(estimators_) = n_estimators
                         /\ Len(snapshot_log) = n_estimators

C1_Witness ==
    /\ pc = "done"
    /\ OtherArgsValid
    /\ n_estimators = 2
    /\ args.epochs = 4
    /\ args.train_loader = 2
    /\ Len(estimators_) = 2

\* ---- C2
\* One of the configurations C2 lists: a non-positive rate, epoch count or
\* log interval, a negative weight decay, an lr_clip that is given and is
\* not a 2-element list/tuple with lower < upper, or an iteration budget
\* that n_cycles does not divide.
C2_Listed ==
    \/ args.init_lr <= 0
    \/ args.weight_decay < 0
    \/ args.epochs <= 0
    \/ args.log_interval <= 0
    \/ ~ClipWellFormed(args.lr_clip)
    \/ /\ n_estimators # 0
       /\ PyMod(args.epochs * args.train_loader, n_estimators) # 0

\* C2: fit raises a configuration error for every listed configuration,
\* and then no optimizer step was performed, no snapshot was appended and
\* nothing was persisted.
C2_ListedConfigurationsRejected ==
    (Called /\ PositiveSetup /\ C2_Listed)
    => /\ pc = "raised"
       /\ error = "ValueError"
       /\ last_step = NoStep
       /\ \A i \in 1 .. Len(heap) : heap[i] = 0
       /\ estimators_ = <<>>
       /\ save_log = <<>>

\* ---- C3
\* C3: when fit rejects a configuration no ensemble field has been written
\* and no model, optimizer or scheduler has been constructed.
C3_RejectedBeforeAnyWrite ==
    (pc = "raised" /\ error = "ValueError" /\ PositiveSetup)
    => /\ n_outputs = 0
       /\ estimators_ = <<>>
       /\ estimator_ = 0
       /\ heap = <<>>
       /\ param_groups = <<>>
       /\ scheduler = NoScheduler

\* ---- C4
\* C4: for every accepted configuration of a positive budget, the k-th
\* snapshot (k = 1, 2, ...) is appended at the end of the epoch numbered
\* k * epochs / n_cycles (1-based), when the counter is
\* k * n_iters_per_estimator, at position k - 1 of the collector; after e
\* completed epochs the collector holds floor(e * n_cycles / epochs)
\* snapshots, so no other epoch end appends one.
C4_SnapshotEpochs ==
    (pc \in {"batch", "epoch_end", "loop_end", "done"} /\ PositiveBudget)
    => /\ \A k \in 1 .. Len(snapshot_log) :
            /\ (snapshot_log[k].epoch + 1) * n_estimators = k * args.epochs
            /\ snapshot_log[k].counter = k * n_iters_per_estimator
            /\ snapshot_log[k].index = k - 1
       /\ n_iters_per_estimator * n_estimators =
              args.epochs * args.train_loader
       /\ Len(snapshot_log) = (epoch * n_estimators) \div args.epochs
       /\ Len(estimators_) = Len(snapshot_log)

C4_Witness ==
    /\ pc = "done"
    /\ n_estimators = 2
    /\ args.epochs = 4
    /\ args.train_loader = 2
    /\ Len(snapshot_log) = 2
    /\ snapshot_log[1].epoch = 1
    /\ snapshot_log[2].epoch = 3
    /\ snapshot_log[2].counter = 8

\* ---- C5
\* The best of the initial BestScore and the scores of the first n
\* validation passes.
RECURSIVE BestOf(_, _, _)
BestOf(classification, log, n) ==
    IF n = 0
    THEN IF classification THEN 0 ELSE Inf
    ELSE LET rest == BestOf(classification, log, n - 1)
             s == log[n].score
         IN  IF classification
             THEN IF s > rest THEN s ELSE rest
             ELSE IF s < rest THEN s ELSE rest

Training == pc \in {"batch", "epoch_end", "loop_end", "done"}

\* After every validation pass BestScore is the best of its initial value
\* and all scores observed so far.
C5_BestIsBestSoFar ==
    Training => best = BestOf(is_classification, validation_log,
                              Len(validation_log))

\* One step of fit: BestScore starts at 0 (accuracy) or +infinity (MSE),
\* never worsens, and changes only in a validation pass whose score is
\* strictly better than it was, to exactly that score.
C5_BestStep ==
    /\ (pc = "idle" /\ pc' = "batch")
       => best' = IF is_classification THEN 0 ELSE Inf
    /\ Training
       => /\ IF is_classification THEN best' >= best ELSE best' <= best
          /\ best' # best
             => /\ Len(validation_log') = Len(validation_log) + 1
                /\ LET v == validation_log'[Len(validation_log')]
                   IN  /\ IF is_classification
                          THEN v.score > best
                          ELSE v.score < best
                       /\ best' = v.score

\* C5: across one fit run BestScore never worsens, changes only at a
\* validation pass with a strictly better score and then equals that score,
\* and always equals the best of its initial value and the scores so far.
C5_BestScoreMonotone == [](C5_BestIsBestSoFar) /\ [][C5_BestStep]_vars

\* Two passes, the first improving, the second worse than the first.
C5_Witness ==
    /\ Len(validation_log) = 2
    /\ validation_log[1].score # validation_log[1].before
    /\ best = validation_log[1].score
    /\ validation_log[2].score # best

\* ---- C6
\* The number of saves made at the end of epoch e.
SavesAt(e) == Cardinality({j \in 1 .. Len(save_log) : save_log[j].epoch = e})

StrictlyBetter(v) ==
    IF is_classification THEN v.score > v.before ELSE v.score < v.before

\* C6 as stated: a validation pass saves the ensemble once when its score
\* strictly improves on BestScore and not at all otherwise.
C6_SavesIffImproves ==
    PositiveBudget
    => \A i \in 1 .. Len(validation_log) :
          SavesAt(validation_log[i].epoch) =
              IF StrictlyBetter(validation_log[i]) THEN 1 ELSE 0

\* C6 amended: a validation pass saves the ensemble exactly once when its
\* score strictly improves on BestScore and save_model is set, and not at
\* all otherwise; a tied or worse score leaves BestScore as it was, a
\* better one replaces it.
C6_SavesIffImprovesAndSaveModel ==
    \A i \in 1 .. Len(validation_log) :
        LET v == validation_log[i]
            after == IF i < Len(validation_log)
                     THEN validation_log[i + 1].before
                     ELSE best
        IN  /\ SavesAt(v.epoch) =
                   IF StrictlyBetter(v) /\ args.save_model THEN 1 ELSE 0
            /\ after = IF StrictlyBetter(v) THEN v.score ELSE v.before

\* Scores up, down, up: saves at the first and third snapshot only.
C6_Witness ==
    /\ is_classification
    /\ args.save_model
    /\ Len(validation_log) = 3
    /\ validation_log[1].score > 0
    /\ validation_log[2].score < validation_log[1].score
    /\ validation_log[3].score > validation_log[1].score
    /\ validation_log[3].before = validation_log[1].score
    /\ Len(save_log) = 2
    /\ save_log[1].epoch = validation_log[1].epoch
    /\ save_log[2].epoch = validation_log[3].epoch

\* ---- C7
\* C7 as stated: without a validation source a completed run has saved the
\* ensemble exactly once, after the last epoch, and an unfinished run has
\* saved nothing.
C7_SavedOnceAtEnd ==
    (Training /\ PositiveBudget /\ args.test_loader = NoLoader)
    => IF pc = "done"
       THEN /\ Len(save_log) = 1
            /\ save_log[1].epoch = args.epochs
            /\ Len(save_log[1].ensemble) = Len(estimators_)
       ELSE save_log = <<>>

\* C7 amended: without a validation source and with save_model set, a
\* completed run has saved the whole ensemble exactly once, after the last
\* epoch, and an unfinished run has saved nothing; with save_model unset
\* nothing is ever saved.
C7_SavedOnceAtEndIfSaveModel ==
    (Training /\ args.test_loader = NoLoader)
    => IF pc = "done" /\ args.save_model
       THEN /\ Len(save_log) = 1
            /\ save_log[1].epoch = args.epochs
            /\ save_log[1].ensemble = Ensemble(estimators_, heap)
       ELSE save_log = <<>>

C7_Witness ==
    /\ pc = "done"
    /\ args.test_loader = NoLoader
    /\ args.save_model
    /\ args.epochs = 4
    /\ n_estimators = 2
    /\ Len(save_log) = 1
    /\ Len(save_log[1].ensemble) = 2

\* ---- C8
\* C8: with a validation source and save_model set, a completed run leaves
\* the best ensemble persisted: the last save wrote the snapshots of a
\* validation pass whose score no other pass of the run beats.
C8_BestEnsemblePersisted ==
    (/\ pc = "done"
     /\ PositiveBudget
     /\ LoaderTruthy(args.test_loader)
     /\ args.save_model)
    => /\ save_log # <<>>
       /\ \E i \in 1 .. Len(validation_log) :
            /\ save_log[Len(save_log)].epoch = validation_log[i].epoch
            /\ Len(save_log[Len(save_log)].ensemble) =
                   validation_log[i].n_estimators
            /\ \A j \in 1 .. Len(validation_log) :
                   IF is_classification
                   THEN validation_log[j].score <= validation_log[i].score
                   ELSE validation_log[j].score >= validation_log[i].score

\* ---- C9
\* The rate the scheduler set for the optimizer step that has just run.
ScheduledRate ==
    (args.init_lr * LrLambda(counter - 1, scheduler.T_M)) \div Scale

\* C9: at every optimizer step, in every parameter group, the rate before
\* clipping is the scheduled rate r; with a bound (lo, hi) the rate in
\* effect c has lo <= c <= hi and c = r when lo <= r <= hi; without a bound
\* c = r.
C9_ClippedRate ==
    (Training /\ last_step # NoStep)
    => /\ Len(last_step.used) = Len(param_groups)
       /\ \A g \in 1 .. Len(last_step.used) :
            LET r == last_step.raw[g]
                c == last_step.used[g]
            IN  /\ r = ScheduledRate
                /\ IF args.lr_clip = None
                   THEN c = r
                   ELSE IF Truthy(args.lr_clip)
                   THEN LET lo == args.lr_clip.val[1]
                            hi == args.lr_clip.val[2]
                        IN  /\ lo <= c
                            /\ c <= hi
                            /\ (lo <= r /\ r <= hi) => c = r
                   ELSE c = r

\* A step whose scheduled rate lies within the bound, after one above it.
C9_Witness ==
    /\ Training
    /\ Truthy(args.lr_clip)
    /\ counter > 1
    /\ last_step.raw[1] > args.lr_clip.val[1]
    /\ last_step.raw[1] < args.lr_clip.val[2]
    /\ last_step.used[1] = last_step.raw[1]

\* ---- C10
\* C10: once an epoch has ended, a validation pass was run at its end
\* exactly if a validation source was supplied and a snapshot was appended
\* at that epoch end.
C10_ValidatesIffSuppliedAndBoundary ==
    (Training /\ PositiveBudget)
    => \A e \in 0 .. (epoch - 1) :
          (\E i \in 1 .. Len(validation_log) : validation_log[i].epoch = e)
          <=> /\ args.test_loader # NoLoader
              /\ \E k \in 1 .. Len(snapshot_log) : snapshot_log[k].epoch = e

\* ---- C11
\* C11: in a run on a fresh ensemble the k-th validation pass (k >= 1) is
\* made at the end of the epoch that appended the k-th snapshot, the
\* collector then holds exactly k snapshots, and the ensemble the pass
\* scores averages all k of them, so it never averages an empty collection.
C11_ValidationScoresAllSnapshots ==
    /\ Len(validation_log) <= Len(estimators_)
    /\ \A k \in 1 .. Len(validation_log) :
          /\ validation_log[k].n_estimators = k
          /\ validation_log[k].scored = k
          /\ k <= Len(snapshot_log)
          /\ validation_log[k].epoch = snapshot_log[k].epoch

C11_Witness ==
    /\ pc = "done"
    /\ Len(validation_log) = 2
    /\ validation_log[1].scored = 1
    /\ validation_log[2].scored = 2
    /\ Len(estimators_) = 2

\* ---- C12
\* The counter equals the number of optimizer updates of the live model and
\* the number of scheduler steps, and its value follows from the position
\* in the loops.
C12_CounterIsStepCount ==
    Training
    => /\ counter = heap[estimator_]
       /\ counter = scheduler.last_epoch
       /\ counter >= 0
       /\ pc = "batch" => counter = epoch * args.train_loader + batch_idx
       /\ pc = "epoch_end" => counter = (epoch + 1) * args.train_loader
       /\ pc \in {"loop_end", "done"} => counter = epoch * args.train_loader

\* One step of a run changes the counter by one exactly if it is an
\* optimizer update, and otherwise leaves it alone; the run starts it at 0.
C12_CounterStep ==
    /\ (pc = "idle" /\ Training') => counter' = 0
    /\ (Training /\ Training')
       => /\ counter' = counter \/ counter' = counter + 1
          /\ (counter' = counter + 1)
             <=> (heap'[estimator_] = heap[estimator_] + 1)
          /\ (counter' = counter + 1) <=> (pc = "batch")

\* C12: the iteration counter starts at 0, grows by exactly one with each
\* optimizer update and with nothing else, is never reset or decremented
\* during the run, and at the end of 1-based epoch e is e * batches.
C12_CounterCountsSteps ==
    [](C12_CounterIsStepCount) /\ [][C12_CounterStep]_vars

C12_Witness ==
    /\ pc = "epoch_end"
    /\ epoch = 2
    /\ args.train_loader = 2
    /\ counter = 6
    /\ heap[estimator_] = 6

\* ---- C13
\* C13: no step of a fit call shortens the collector or changes which
\* snapshot stands at a position it already holds.
C13_CollectorAppendOnly ==
    [][/\ Len(estimators_') >= Len(estimators_)
       /\ \A i \in 1 .. Len(estimators_) : estimators_'[i] = estimators_[i]
      ]_vars

C13_Witness ==
    /\ pc = "done"
    /\ Len(estimators_) = 3
    /\ Len(validation_log) = 3
    /\ Len(save_log) > 0

\* ---- C14
\* Every snapshot is an object other than the live model and holds the
\* parameter state the live model had when the snapshot was taken.
C14_SnapshotKeepsCapturedState ==
    \A k \in 1 .. Len(estimators_) :
        /\ estimators_[k] # estimator_
        /\ k <= Len(snapshot_log)
        /\ heap[estimators_[k]] = snapshot_log[k].state

\* An optimizer update changes no snapshot; the end of an epoch (snapshot,
\* validation, saving) and the end of the run change no object at all.
C14_FrameStep ==
    /\ \A k \in 1 .. Len(estimators_) :
          heap'[estimators_[k]] = heap[estimators_[k]]
    /\ (pc \in {"epoch_end", "loop_end"})
       => \A i \in 1 .. Len(heap) : heap'[i] = heap[i]

\* C14: a stored snapshot keeps the parameter state the live model had at
\* its capture through every later optimizer update of the run, and
\* validation, saving and the end of the run leave the live model as it is.
C14_SnapshotIndependent ==
    [](C14_SnapshotKeepsCapturedState) /\ [][C14_FrameStep]_vars

C14_Witness ==
    /\ pc = "done"
    /\ Len(estimators_) >= 2
    /\ heap[estimators_[1]] = snapshot_log[1].state
    /\ heap[estimators_[1]] < heap[estimator_]
    /\ Len(validation_log) >= 2

\* ---- C15
\* C15: in a run of a positive budget the period is
\* T = ceil(epochs * batches / n_cycles); the optimizer step number i
\* (0-based) runs at the rate init_lr * m_i, where m_i is the multiplier of
\* phase i mod T; every phase is in 0 .. T-1, phase 0 has the multiplier 1,
\* it is the phase of step 0 and of every step T steps after a step of
\* phase 0, no multiplier is 0, and the multipliers repeat with period T.
C15_PhaseIsStepModPeriod ==
    (Training /\ PositiveBudget)
    => LET T == scheduler.T_M
       IN  /\ T = PyCeilDiv(args.epochs * args.train_loader, n_estimators)
           /\ T > 0
           /\ Len(lr_lambda_log) = counter + 1
           /\ \A j \in 1 .. Len(lr_lambda_log) :
                 LET i == j - 1
                     c == lr_lambda_log[j]
                 IN  /\ c.phase = i % T
                     /\ c.phase \in 0 .. (T - 1)
                     /\ c.phase # T
                     /\ (c.phase = 0) <=> (i = T * (i \div T))
                     /\ (c.phase = 0) => c.mult = Scale
                     /\ c.mult > 0
                     /\ c.mult <= Scale
                     /\ (j + T <= Len(lr_lambda_log))
                        => lr_lambda_log[j + T] = c
           /\ (last_step # NoStep)
              => \A g \in 1 .. Len(last_step.raw) :
                    last_step.raw[g] =
                        (args.init_lr * lr_lambda_log[counter].mult)
                        \div Scale

C15_Witness ==
    /\ pc = "done"
    /\ n_estimators = 2
    /\ scheduler.T_M = 4
    /\ counter = 8
    /\ lr_lambda_log[1].phase = 0
    /\ lr_lambda_log[4].phase = 3
    /\ lr_lambda_log[4].mult < 200
    /\ lr_lambda_log[5].phase = 0
    /\ lr_lambda_log[5].mult = Scale
    /\ lr_lambda_log[8] = lr_lambda_log[4]

\* ---- C16
\* C16: in every run that fit accepts the scheduler's period T equals
\* n_iters_per_estimator, n_cycles * T is epochs * batches, and every
\* snapshot is taken when the counter is a multiple of T, at the phase 0
\* that follows a completed cycle.
C16_PeriodIsSnapshotInterval ==
    Training
    => /\ scheduler.T_M =
              PyCeilDiv(args.epochs * args.train_loader, n_estimators)
       /\ n_iters_per_estimator =
              PyFloorDiv(args.epochs * args.train_loader, n_estimators)
       /\ scheduler.T_M = n_iters_per_estimator
       /\ n_estimators * scheduler.T_M = args.epochs * args.train_loader
       /\ \A k \in 1 .. Len(snapshot_log) :
             /\ snapshot_log[k].counter = k * Abs(scheduler.T_M)
             /\ lr_lambda_log[snapshot_log[k].counter + 1].phase = 0
       /\ (pc = "epoch_end" /\ PyMod(counter, scheduler.T_M) = 0)
          => Len(snapshot_log) + 1 = counter \div Abs(scheduler.T_M)

C16_Witness ==
    /\ pc = "done"
    /\ n_estimators = 3
    /\ args.epochs = 3
    /\ args.train_loader = 2
    /\ scheduler.T_M = 2
    /\ n_iters_per_estimator = 2
    /\ Len(snapshot_log) = 3
    /\ snapshot_log[3].counter = 6

C18_BoundaryOnlyAtEpochEnd ==
    Training
    => /\ n_iters_per_estimator # 0
       /\ (pc = "batch" /\ batch_idx > 0)
          => PyMod(counter, n_iters_per_estimator) # 0
       /\ \A k \in 1 .. Len(snapshot_log) :
             snapshot_log[k].counter = k * Abs(n_iters_per_estimator)
       /\ (pc # "epoch_end")
          => Len(snapshot_log) = counter \div Abs(n_iters_per_estimator)
       /\ (pc = "epoch_end")
          => Len(snapshot_log) =
                 (counter - 1) \div Abs(n_iters_per_estimator)

C18_Witness ==
    /\ pc = "batch"
    /\ batch_idx = 1
    /\ counter = 3
    /\ n_iters_per_estimator = 2
    /\ Len(snapshot_log) = 1
    /\ snapshot_log[1].counter = 2

\* ---- C20
\* C20: in every run that reaches the training loop with at least one
\* batch per epoch, n_cycles is a non-zero divisor of epochs and
\* n_iters_per_estimator is non-zero, at least batches_per_epoch in absolute
\* value; a call with n_cycles = 0 raises before the loop, and no division
\* by zero is raised once an optimizer step has run.
C20_BoundaryDivisorNonZero ==
    /\ (Training /\ args.train_loader >= 1)
       => /\ n_estimators # 0
          /\ n_iters_per_estimator # 0
          /\ Abs(n_iters_per_estimator) >= args.train_loader
          /\ PyMod(args.epochs, n_estimators) = 0
    /\ (Called /\ n_estimators = 0)
       => (pc = "raised" /\ last_step = NoStep /\ estimators_ = <<>>)
    /\ (pc = "raised" /\ error = "ZeroDivisionError") => last_step = NoStep

C20_Witness ==
    /\ pc = "epoch_end"
    /\ n_estimators = 2
    /\ args.epochs = 4
    /\ args.train_loader = 2
    /\ n_iters_per_estimator = 4
    /\ counter = 4
    /\ IsBoundary(counter, n_iters_per_estimator)

\* ---- C19
\* The second fit of the instance is under way or over: the collector holds
\* snapshots that this call did not append.
InSecondRun == Called /\ Len(estimators_) > Len(snapshot_log)

\* The second fit on an ensemble of n_cycles >= 1 finds the n_cycles
\* snapshots of the first, appends its own after them, scores and saves the
\* snapshots of both runs, and ends with 2 * n_cycles snapshots.
C19_SecondRunKeepsFirst ==
    (InSecondRun /\ n_estimators > 0)
    => /\ Len(estimators_) = n_estimators + Len(snapshot_log)
       /\ \A k \in 1 .. Len(snapshot_log) :
             snapshot_log[k].index = n_estimators + k - 1
       /\ \A k \in 1 .. Len(validation_log) :
             /\ validation_log[k].scored = n_estimators + k
             /\ validation_log[k].n_estimators = n_estimators + k
       /\ \A i \in 1 .. Len(save_log) :
             /\ Len(save_log[i].ensemble) > n_estimators
             /\ \A j \in 1 .. n_estimators :
                   save_log[i].ensemble[j] = heap[estimators_[j]]
       /\ (pc = "done")
          => /\ Len(estimators_) = 2 * n_estimators
             /\ FinalSaves(args.save_model, args.test_loader)
                => /\ Len(save_log) = 1
                   /\ Len(save_log[1].ensemble) = 2 * n_estimators

\* No step of either run, nor the start of the second, moves or changes a
\* snapshot the collector holds.
C19_SnapshotsStay ==
    /\ Len(estimators_') >= Len(estimators_)
    /\ \A i \in 1 .. Len(estimators_) :
          /\ estimators_'[i] = estimators_[i]
          /\ heap'[estimators_[i]] = heap[estimators_[i]]

\* C19: fit never clears the collector; a second fit to completion on the
\* same instance leaves the n_cycles snapshots of the first run in place
\* and unchanged, appends n_cycles more after them, and its validation
\* passes and its final save cover the snapshots of both runs.
C19_RefitAppends ==
    [](C19_SecondRunKeepsFirst) /\ [][C19_SnapshotsStay]_vars

C19_Witness ==
    /\ pc = "done"
    /\ n_estimators = 2
    /\ Len(estimators_) = 4
    /\ Len(snapshot_log) = 2
    /\ Len(validation_log) = 2
    /\ validation_log[1].scored = 3
    /\ validation_log[2].scored = 4
    /\ heap[estimators_[1]] # heap[estimators_[3]]

====
